---------------------------- MODULE Spec2Model ----------------------------
(***************************************************************************)
(* Query safety and parameterization subsystem.                            *)
(*                                                                         *)
(* Texts are sequences of one-character strings, so that the string        *)
(* operations of the source (replace, split, count, startswith, upper,     *)
(* strip, re.sub) are computed character by character as Python does.      *)
(***************************************************************************)
EXTENDS Integers, Sequences, FiniteSets, TLC

VARIABLES
    op,               \* the public operation that was invoked
    sql_query,        \* the query text of the current request
    user_id,          \* the caller's user id
    pc,               \* position inside the current handler
    verdict,          \* (is_safe, reason) of query_guard.validate_query, or report of a checker
    safe_query,       \* template returned by _prepare_query_parameters
    params,           \* parameter tuple returned by _prepare_query_parameters
    execution_result, \* what db_manager.execute_query_with_validation returned
    driver_calls,     \* every (template, params) handed to the db_manager, in order
    result,           \* the value returned by the current request
    queries,          \* execute_multiple_queries: the input list
    i,                \* execute_multiple_queries: loop index, as enumerate gives it
    results,          \* execute_multiple_queries: the list being built
    events,           \* history of the steps taken, in order
    calls             \* concurrent calls of execute_query: the local variables of each

vars == <<op, sql_query, user_id, pc, verdict, safe_query, params,
          execution_result, driver_calls, result, queries, i, results, events,
          calls>>

---------------------------------------------------------------------------
(* Bounds of the model *)

\* longest fragment sequence given to _prepare_query_parameters on its own
MaxLen == 5
\* longest fragment sequence appended to a query head given to execute_query
MaxTail == 3
\* longest batch given to execute_multiple_queries
MaxBatch == 3
\* longest fragment sequence given to the structural checks on their own
MaxFrags == 3
\* number of calls of execute_query running concurrently on one agent
MaxCalls == 2

---------------------------------------------------------------------------
(* Characters and fixed tokens *)

QUOTE == "'"
PERCENT == "%"
Whitespace == {" ", "\t", "\n", "\r"}

MARKER == <<"{", "u", "s", "e", "r", "_", "i", "d", "}">>
PLACEHOLDER == <<"%", "s">>

SELECT == <<"S", "E", "L", "E", "C", "T">>
FROM == <<"F", "R", "O", "M">>
WHERE == <<"W", "H", "E", "R", "E">>
USER_ID == <<"U", "S", "E", "R", "_", "I", "D">>

dangerous_keywords ==
    << <<"D", "R", "O", "P">>,
       <<"D", "E", "L", "E", "T", "E">>,
       <<"I", "N", "S", "E", "R", "T">>,
       <<"U", "P", "D", "A", "T", "E">>,
       <<"A", "L", "T", "E", "R">>,
       <<"C", "R", "E", "A", "T", "E">>,
       <<"T", "R", "U", "N", "C", "A", "T", "E">> >>

---------------------------------------------------------------------------
(* Python string operations *)

\* str.upper() on one character
UpperChar(c) ==
    CASE c = "a" -> "A" [] c = "b" -> "B" [] c = "c" -> "C" [] c = "d" -> "D"
      [] c = "e" -> "E" [] c = "f" -> "F" [] c = "g" -> "G" [] c = "h" -> "H"
      [] c = "i" -> "I" [] c = "j" -> "J" [] c = "k" -> "K" [] c = "l" -> "L"
      [] c = "m" -> "M" [] c = "n" -> "N" [] c = "o" -> "O" [] c = "p" -> "P"
      [] c = "q" -> "Q" [] c = "r" -> "R" [] c = "s" -> "S" [] c = "t" -> "T"
      [] c = "u" -> "U" [] c = "v" -> "V" [] c = "w" -> "W" [] c = "x" -> "X"
      [] c = "y" -> "Y" [] c = "z" -> "Z" [] OTHER -> c

\* str.upper()
Upper(s) == [k \in 1..Len(s) |-> UpperChar(s[k])]

\* s[n:]
Drop(s, n) == SubSeq(s, n + 1, Len(s))

\* str.startswith(p)
StartsWith(s, p) == Len(p) <= Len(s) /\ SubSeq(s, 1, Len(p)) = p

\* p in s
Contains(s, p) == \E k \in 0..(Len(s) - Len(p)) : SubSeq(s, k + 1, k + Len(p)) = p

\* str.replace(old, new): leftmost, non-overlapping occurrences
RECURSIVE Replace(_, _, _)
Replace(s, old, new) ==
    IF Len(s) < Len(old) THEN s
    ELSE IF StartsWith(s, old) THEN new \o Replace(Drop(s, Len(old)), old, new)
    ELSE <<Head(s)>> \o Replace(Tail(s), old, new)

\* str.count(sub): non-overlapping occurrences
RECURSIVE Count(_, _)
Count(s, sub) ==
    IF Len(s) < Len(sub) THEN 0
    ELSE IF StartsWith(s, sub) THEN 1 + Count(Drop(s, Len(sub)), sub)
    ELSE Count(Tail(s), sub)

\* position of the first occurrence of character c in s, 0 when there is none
FirstIndex(s, c) ==
    IF \E k \in 1..Len(s) : s[k] = c
    THEN CHOOSE k \in 1..Len(s) : s[k] = c /\ \A j \in 1..(k - 1) : s[j] # c
    ELSE 0

\* str.split(c) on a one-character separator
RECURSIVE Split(_, _)
Split(s, c) ==
    LET k == FirstIndex(s, c)
    IN  IF k = 0 THEN <<s>>
        ELSE <<SubSeq(s, 1, k - 1)>> \o Split(Drop(s, k), c)

\* str.strip(): whitespace removed at both ends
RECURSIVE LStrip(_)
LStrip(s) == IF s # <<>> /\ Head(s) \in Whitespace THEN LStrip(Tail(s)) ELSE s

RECURSIVE RStrip(_)
RStrip(s) ==
    IF s # <<>> /\ s[Len(s)] \in Whitespace THEN RStrip(SubSeq(s, 1, Len(s) - 1)) ELSE s

Strip(s) == RStrip(LStrip(s))

\* str(n) for a non-negative integer
DigitChar(d) ==
    CASE d = 0 -> "0" [] d = 1 -> "1" [] d = 2 -> "2" [] d = 3 -> "3"
      [] d = 4 -> "4" [] d = 5 -> "5" [] d = 6 -> "6" [] d = 7 -> "7"
      [] d = 8 -> "8" [] d = 9 -> "9"

RECURSIVE Str(_)
Str(n) == IF n < 10 THEN <<DigitChar(n)>> ELSE Str(n \div 10) \o <<DigitChar(n % 10)>>

\* concatenation of a sequence of texts
RECURSIVE Flatten(_)
Flatten(ss) == IF ss = <<>> THEN <<>> ELSE Head(ss) \o Flatten(Tail(ss))

\* all sequences over S of length at most n
SeqsUpTo(S, n) == UNION {[1..k -> S] : k \in 0..n}

---------------------------------------------------------------------------
(* _prepare_query_parameters *)

\* faulty variant: the literal is put back as it was
escape_string_literal_unchanged(content) == <<QUOTE>> \o content \o <<QUOTE>>

\* faulty variant: a normalising escape, which leaves an already doubled % alone
escape_string_literal_normalising(content) ==
    <<QUOTE>>
        \o Replace(Replace(content, <<PERCENT, PERCENT>>, <<PERCENT>>),
                   <<PERCENT>>, <<PERCENT, PERCENT>>)
        \o <<QUOTE>>

\* the callback given to re.sub: % doubled inside one quoted literal
escape_string_literal(content) ==
    <<QUOTE>> \o Replace(content, <<PERCENT>>, <<PERCENT, PERCENT>>) \o <<QUOTE>>

\* re.sub(r"'([^']*)'", escape_string_literal, s): leftmost non-overlapping
\* matches; an opening quote with no closing quote matches nothing
RECURSIVE re_sub_literals(_)
re_sub_literals(s) ==
    IF s = <<>> THEN <<>>
    ELSE IF Head(s) # QUOTE THEN <<Head(s)>> \o re_sub_literals(Tail(s))
    ELSE LET rest == Tail(s)
             k == FirstIndex(rest, QUOTE)
         IN  IF k = 0 THEN s
             ELSE escape_string_literal(SubSeq(rest, 1, k - 1))
                      \o re_sub_literals(Drop(rest, k))

\* the loop over split("'"): %s counted in the parts of even (0-based) index
RECURSIVE CountEvenParts(_, _)
CountEvenParts(parts, idx) ==
    IF parts = <<>> THEN 0
    ELSE (IF idx % 2 = 0 THEN Count(Head(parts), PLACEHOLDER) ELSE 0)
             + CountEvenParts(Tail(parts), idx + 1)

\* faulty variant: %s counted in the whole text, literals included
placeholder_count_everywhere(query) == Count(query, PLACEHOLDER)

placeholder_count(query) == CountEvenParts(Split(query, QUOTE), 0)

\* faulty variant: the marker is replaced by the user id written as text
prepare_interpolating(query, uid) ==
    LET text == re_sub_literals(Replace(query, MARKER, Str(uid)))
    IN  [safe_query |-> text,
         params |-> [k \in 1..placeholder_count(text) |-> uid]]

\* faulty variant: a single parameter whatever the number of placeholders
prepare_single_parameter(query, uid) ==
    LET text == re_sub_literals(Replace(query, MARKER, PLACEHOLDER))
    IN  [safe_query |-> text,
         params |-> IF placeholder_count(text) > 0 THEN <<uid>> ELSE <<>>]

\* faulty variant: the literals are escaped before the marker is replaced
prepare_escape_first(query, uid) ==
    LET text == Replace(re_sub_literals(query), MARKER, PLACEHOLDER)
    IN  [safe_query |-> text,
         params |-> [k \in 1..placeholder_count(text) |-> uid]]

\* _prepare_query_parameters: the marker is replaced (line 227), the literals
\* of the result are escaped (lines 232-237), the placeholders of that result
\* are counted (lines 241-246); each step works on the value of the one before
prepare_query_parameters(query, uid) ==
    CHOOSE bound \in
        {[safe_query |-> escaped,
          params |-> [k \in 1..placeholder_count(escaped) |-> uid]] :
            escaped \in {re_sub_literals(replaced) :
                            replaced \in {Replace(query, MARKER, PLACEHOLDER)}}} : TRUE

---------------------------------------------------------------------------
(* Inputs *)

UserIds == {5, 50}

\* SELECT * FROM t WHERE user_id = {user_id}
Q_SCOPED ==
    <<"S", "E", "L", "E", "C", "T", " ", "*", " ", "F", "R", "O", "M", " ",
      "t", " ", "W", "H", "E", "R", "E", " ", "u", "s", "e", "r", "_", "i",
      "d", " ", "=", " ", "{", "u", "s", "e", "r", "_", "i", "d", "}">>

\* select a from t where user_id = {user_id}
Q_LOWER ==
    <<"s", "e", "l", "e", "c", "t", " ", "a", " ", "f", "r", "o", "m", " ",
      "t", " ", "w", "h", "e", "r", "e", " ", "u", "s", "e", "r", "_", "i",
      "d", " ", "=", " ", "{", "u", "s", "e", "r", "_", "i", "d", "}">>

\*  SELECT * FROM t WHERE user_id = {user_id}
Q_PADDED ==
    <<" ", "S", "E", "L", "E", "C", "T", " ", "*", " ", "F", "R", "O", "M",
      " ", "t", " ", "W", "H", "E", "R", "E", " ", "u", "s", "e", "r", "_",
      "i", "d", " ", "=", " ", "{", "u", "s", "e", "r", "_", "i", "d", "}">>

\* DROP TABLE t
Q_DROP ==
    <<"D", "R", "O", "P", " ", "T", "A", "B", "L", "E", " ", "t">>

\* SELECT * FROM t
Q_UNSCOPED ==
    <<"S", "E", "L", "E", "C", "T", " ", "*", " ", "F", "R", "O", "M", " ",
      "t">>

\* SELECT * FROM a JOIN b ON a.user_id = {user_id} WHERE b.user_id = {user_id}
Q_JOIN ==
    <<"S", "E", "L", "E", "C", "T", " ", "*", " ", "F", "R", "O", "M", " ",
      "a", " ", "J", "O", "I", "N", " ", "b", " ", "O", "N", " ", "a", ".",
      "u", "s", "e", "r", "_", "i", "d", " ", "=", " ", "{", "u", "s", "e",
      "r", "_", "i", "d", "}", " ", "W", "H", "E", "R", "E", " ", "b", ".",
      "u", "s", "e", "r", "_", "i", "d", " ", "=", " ", "{", "u", "s", "e",
      "r", "_", "i", "d", "}">>

\* SELECT * FROM events WHERE user_id = {user_id} AND label = '50% off'
Q_LITERAL ==
    <<"S", "E", "L", "E", "C", "T", " ", "*", " ", "F", "R", "O", "M", " ",
      "e", "v", "e", "n", "t", "s", " ", "W", "H", "E", "R", "E", " ", "u",
      "s", "e", "r", "_", "i", "d", " ", "=", " ", "{", "u", "s", "e", "r",
      "_", "i", "d", "}", " ", "A", "N", "D", " ", "l", "a", "b", "e", "l",
      " ", "=", " ", "'", "5", "0", "%", " ", "o", "f", "f", "'">>

\* SELECT * FROM events WHERE user_id = %s AND label = '50%% off'
T_LITERAL ==
    <<"S", "E", "L", "E", "C", "T", " ", "*", " ", "F", "R", "O", "M", " ",
      "e", "v", "e", "n", "t", "s", " ", "W", "H", "E", "R", "E", " ", "u",
      "s", "e", "r", "_", "i", "d", " ", "=", " ", "%", "s", " ", "A", "N",
      "D", " ", "l", "a", "b", "e", "l", " ", "=", " ", "'", "5", "0", "%",
      "%", " ", "o", "f", "f", "'">>

\* SELECT COUNT(*) as total_rows FROM (
STATS_PREFIX ==
    <<"S", "E", "L", "E", "C", "T", " ", "C", "O", "U", "N", "T", "(", "*",
      ")", " ", "a", "s", " ", "t", "o", "t", "a", "l", "_", "r", "o", "w",
      "s", " ", "F", "R", "O", "M", " ", "(">>

\* ) as subquery
STATS_SUFFIX ==
    <<")", " ", "a", "s", " ", "s", "u", "b", "q", "u", "e", "r", "y">>


\* fragments from which the texts given to _prepare_query_parameters are built
BindFrags == {MARKER, <<PERCENT>>, <<"s">>, <<QUOTE>>, <<"x">>}

BindTexts ==
    {Flatten(fs) : fs \in SeqsUpTo(BindFrags, MaxLen)} \cup {Q_JOIN, Q_LITERAL}

\* query heads and the fragments appended to them
Heads == {Q_SCOPED, Q_LOWER, Q_PADDED, Q_DROP, Q_UNSCOPED}

TailFrags ==
    {<<QUOTE>>, <<PERCENT>>, <<"s">>, <<";">>, <<" ">>, <<"x">>, MARKER,
     <<" ", "D", "R", "O", "P", " ">>}

QueryTexts ==
    {h \o Flatten(fs) : h \in Heads, fs \in SeqsUpTo(TailFrags, MaxTail)}
        \cup {Q_JOIN, Q_LITERAL}

\* fragments from which the texts given to the structural checks are built
SCOPE_CLAUSE ==
    <<" ", "*", " ", "F", "R", "O", "M", " ", "t", " ", "W", "H", "E", "R", "E",
      " ", "u", "s", "e", "r", "_", "i", "d", " ", "=", " ", "%", "s">>

\* a forbidden keyword between newlines, and one inside an identifier
KEYWORD_LINE == <<"\n", "D", "R", "O", "P", "\n">>
IDENTIFIER == <<" ", "A", "N", "D", " ", "c", "r", "e", "a", "t", "e", "d", "_", "a", "t">>

\* clauses that give a FROM, a WHERE and a user_id reference one at a time
FROM_CLAUSE == <<" ", "f", "r", "o", "m", " ", "t">>
WHERE_CLAUSE == <<" ", "W", "H", "E", "R", "E", " ", "x">>
USER_COLUMN == <<" ", "u", "s", "e", "r", "_", "i", "d">>

\* a second statement appended directly after a semicolon
SECOND_STATEMENT == <<";", "S", "E", "L", "E", "C", "T", " ", "1">>

StructureFrags ==
    {<<" ">>, <<"\n">>, SELECT, <<"s", "e", "l", "e", "c", "t">>, SCOPE_CLAUSE,
     <<"x">>, <<"D", "R", "O", "P">>, KEYWORD_LINE, IDENTIFIER, FROM_CLAUSE,
     WHERE_CLAUSE, USER_COLUMN, SECOND_STATEMENT}

StructureTexts == {Flatten(fs) : fs \in SeqsUpTo(StructureFrags, MaxFrags)}

\* fragments from which the texts given to _fix_user_id_placeholder are built
FixFrags ==
    {<<"u", "s", "e", "r", "_", "i", "d">>, USER_ID, <<" ", "=", " ">>,
     <<"=">>, <<" ">>, <<"5">>, <<"0">>, <<"5", "0">>, <<"x">>}

FixTexts == {Flatten(fs) : fs \in SeqsUpTo(FixFrags, MaxFrags)}

\* the queries and the db_manager answers of concurrent calls
ConcurrentTexts == {Q_JOIN, Q_DROP}

\* the queries whose requests are followed to their return
StageTexts ==
    {Q_SCOPED, Q_LOWER, Q_PADDED, Q_DROP, Q_UNSCOPED,
     Q_SCOPED \o <<";">>, Q_SCOPED \o <<QUOTE>>}

\* the queries a batch is made of
BatchTexts == {Q_SCOPED, Q_LITERAL, Q_DROP, Q_UNSCOPED}

---------------------------------------------------------------------------
(* QuerySecurityGuard.validate_query: the Structural Validator, rules 1 to 5 *)

IsStandaloneToken(text, kw) ==
    \E k \in 0..(Len(text) - Len(kw)) :
        /\ SubSeq(text, k + 1, k + Len(kw)) = kw
        /\ (k = 0 \/ text[k] \in Whitespace)
        /\ k + Len(kw) < Len(text)
        /\ text[k + Len(kw) + 1] \in Whitespace

HasSecondStatement(text) ==
    \E k \in 1..Len(text) :
        /\ text[k] = ";"
        /\ \E j \in (k + 1)..Len(text) : text[j] \notin Whitespace

validate_query(query, uid) ==
    LET text == Strip(Upper(query))
    IN  IF ~StartsWith(text, SELECT)
        THEN [is_safe |-> FALSE, reason |-> "NotASelect"]
        ELSE IF ~Contains(text, FROM)
        THEN [is_safe |-> FALSE, reason |-> "MissingFromClause"]
        ELSE IF ~(Contains(text, WHERE) /\ Contains(text, USER_ID))
        THEN [is_safe |-> FALSE, reason |-> "MissingUserScope"]
        ELSE IF \E n \in 1..Len(dangerous_keywords) :
                    IsStandaloneToken(text, dangerous_keywords[n])
        THEN [is_safe |-> FALSE, reason |-> "ContainsForbiddenKeyword"]
        ELSE IF HasSecondStatement(text)
        THEN [is_safe |-> FALSE, reason |-> "MultipleStatements"]
        ELSE [is_safe |-> TRUE, reason |-> "Safe"]

---------------------------------------------------------------------------
(* The db_manager: an external collaborator whose answer is not determined *)

IntVal(n) == [type |-> "int", v |-> n]
DateTimeVal(n) == [type |-> "datetime", v |-> n]
DateVal(n) == [type |-> "date", v |-> n]

Row1 == [id |-> IntVal(1), created_at |-> DateTimeVal(7)]
Row2 == [id |-> IntVal(2), created_at |-> DateVal(8)]
RowSets == {<<>>, <<Row1>>, <<Row1, Row2>>}
Columns == <<"id", "created_at">>

DriverRows(rows, cols) ==
    [raised |-> FALSE, success |-> TRUE, results |-> rows,
     row_count |-> Len(rows), columns |-> cols, error |-> ""]

DriverError ==
    [raised |-> FALSE, success |-> FALSE, results |-> <<>>,
     row_count |-> 0, columns |-> <<>>, error |-> "driver error"]

DriverRaises ==
    [raised |-> TRUE, success |-> FALSE, results |-> <<>>,
     row_count |-> 0, columns |-> <<>>, error |-> "connection lost"]

ExecResponses ==
    {DriverRows(rows, Columns) : rows \in RowSets} \cup {DriverError, DriverRaises}

RowCounts == {0, 1, 9, 10, 99, 100, 500, 999, 1000}

StatsResponses ==
    {DriverRows(<<[total_rows |-> n]>>, <<"total_rows">>) : n \in RowCounts}
        \cup {DriverRows(<<>>, <<"total_rows">>), DriverError, DriverRaises}

---------------------------------------------------------------------------
(* Results *)

NoVerdict == [is_safe |-> FALSE, reason |-> "none"]
NoResponse ==
    [raised |-> FALSE, success |-> FALSE, results |-> <<>>,
     row_count |-> 0, columns |-> <<>>, error |-> "none"]
NoResult == [returned |-> FALSE]

\* value.isoformat()
isoformat(value) == [type |-> "str", v |-> value.v]

\* faulty variant: every value is turned into text
process_query_results_stringify(rows) ==
    IF rows = <<>> THEN <<>>
    ELSE [k \in 1..Len(rows) |->
            [key \in DOMAIN rows[k] |-> isoformat(rows[k][key])]]

process_query_results(rows) ==
    IF rows = <<>> THEN <<>>
    ELSE [k \in 1..Len(rows) |->
            [key \in DOMAIN rows[k] |->
                IF rows[k][key].type = "datetime" THEN isoformat(rows[k][key])
                ELSE IF rows[k][key].type = "date" THEN isoformat(rows[k][key])
                ELSE rows[k][key]]]

\* faulty variant: the boundaries compared with <= instead of <
estimate_result_size_inclusive(row_count, columns) ==
    IF row_count = 0 THEN "No data"
    ELSE IF row_count <= 10 THEN "Small dataset"
    ELSE IF row_count <= 100 THEN "Medium dataset"
    ELSE IF row_count <= 1000 THEN "Large dataset"
    ELSE "Very large dataset"

estimate_result_size(row_count, columns) ==
    IF row_count = 0 THEN "No data"
    ELSE IF row_count < 10 THEN "Small dataset"
    ELSE IF row_count < 100 THEN "Medium dataset"
    ELSE IF row_count < 1000 THEN "Large dataset"
    ELSE "Very large dataset"

\* the failure dictionaries of execute_query
Failure(error, query, uid) ==
    [success |-> FALSE, error |-> error, query |-> query, user_id |-> uid]

SecurityError(reason) == <<"Query blocked for security", reason>>

\* the success dictionary of execute_query
Success(resp, query, uid) ==
    [success |-> TRUE, results |-> process_query_results(resp.results),
     raw_results |-> resp.results, row_count |-> resp.row_count,
     columns |-> resp.columns, query |-> query, user_id |-> uid]

Event(step, index) == [step |-> step, index |-> index]

---------------------------------------------------------------------------
(* execute_query, step by step *)

\* faulty variant: the verdict is computed and then ignored
execute_query_validate_ignored ==
    /\ op \in {"execute_query", "execute_multiple_queries"}
    /\ pc = "Received"
    /\ verdict' = validate_query(sql_query, user_id)
    /\ events' = Append(events, Event("validate", i))
    /\ pc' = "Validated"
    /\ UNCHANGED <<calls, op, sql_query, user_id, safe_query, params, execution_result,
                   driver_calls, result, queries, i, results>>

\* Step 1: security validation, and the early return on a rejected verdict
execute_query_validate ==
    /\ op \in {"execute_query", "execute_multiple_queries"}
    /\ pc = "Received"
    /\ LET v == validate_query(sql_query, user_id)
       IN  /\ verdict' = v
           /\ IF ~v.is_safe
              THEN /\ result' = Failure(SecurityError(v.reason), sql_query, user_id)
                   /\ pc' = "Failed"
              ELSE /\ pc' = "Validated"
                   /\ UNCHANGED result
    /\ events' = Append(events, Event("validate", i))
    /\ UNCHANGED <<calls, op, sql_query, user_id, safe_query, params, execution_result,
                   driver_calls, queries, i, results>>

\* the except clause when query_guard.validate_query raises
execute_query_guard_raises ==
    /\ op \in {"execute_query", "execute_multiple_queries"}
    /\ pc = "Received"
    /\ result' = Failure(<<"guard error">>, sql_query, user_id)
    /\ pc' = "Failed"
    /\ events' = Append(events, Event("raise", i))
    /\ UNCHANGED <<calls, op, sql_query, user_id, verdict, safe_query, params,
                   execution_result, driver_calls, queries, i, results>>

\* Step 2: prepare query parameters
execute_query_prepare ==
    /\ op \in {"execute_query", "execute_multiple_queries"}
    /\ pc = "Validated"
    /\ safe_query' = prepare_query_parameters(sql_query, user_id).safe_query
    /\ params' = prepare_query_parameters(sql_query, user_id).params
    /\ pc' = "Parameterized"
    /\ events' = Append(events, Event("prepare", i))
    /\ UNCHANGED <<calls, op, sql_query, user_id, verdict, execution_result,
                   driver_calls, result, queries, i, results>>

\* Step 3: the call of db_manager.execute_query_with_validation
execute_query_dispatch ==
    /\ op \in {"execute_query", "execute_multiple_queries"}
    /\ pc = "Parameterized"
    /\ driver_calls' = Append(driver_calls, [query |-> safe_query, params |-> params])
    /\ \E resp \in ExecResponses : execution_result' = resp
    /\ pc' = "Dispatched"
    /\ events' = Append(events, Event("dispatch", i))
    /\ UNCHANGED <<calls, op, sql_query, user_id, verdict, safe_query, params,
                   result, queries, i, results>>

\* faulty variant: no except clause, an exception of the db_manager call
\* leaves execute_query without a returned value
execute_query_return_uncaught ==
    /\ op \in {"execute_query", "execute_multiple_queries"}
    /\ pc = "Dispatched"
    /\ IF execution_result.raised
       THEN /\ pc' = "Propagated"
            /\ UNCHANGED result
       ELSE IF execution_result.success
       THEN /\ result' = Success(execution_result, sql_query, user_id)
            /\ pc' = "Completed"
       ELSE /\ result' = Failure(<<execution_result.error>>, sql_query, user_id)
            /\ pc' = "Failed"
    /\ events' = Append(events, Event("return", i))
    /\ UNCHANGED <<calls, op, sql_query, user_id, verdict, safe_query, params,
                   execution_result, driver_calls, queries, i, results>>

\* faulty variant: a failure of the db_manager call is retried once
execute_query_return_retrying ==
    /\ op \in {"execute_query", "execute_multiple_queries"}
    /\ pc = "Dispatched"
    /\ IF (execution_result.raised \/ ~execution_result.success) /\ Len(driver_calls) < 2
       THEN /\ pc' = "Parameterized"
            /\ UNCHANGED result
       ELSE IF execution_result.raised \/ ~execution_result.success
       THEN /\ result' = Failure(<<execution_result.error>>, sql_query, user_id)
            /\ pc' = "Failed"
       ELSE /\ result' = Success(execution_result, sql_query, user_id)
            /\ pc' = "Completed"
    /\ events' = Append(events, Event("return", i))
    /\ UNCHANGED <<calls, op, sql_query, user_id, verdict, safe_query, params,
                   execution_result, driver_calls, queries, i, results>>

\* Step 4: process results; the except clause when the call raised
execute_query_return ==
    /\ op \in {"execute_query", "execute_multiple_queries"}
    /\ pc = "Dispatched"
    /\ IF execution_result.raised
       THEN /\ result' = Failure(<<execution_result.error>>, sql_query, user_id)
            /\ pc' = "Failed"
       ELSE IF execution_result.success
       THEN /\ result' = Success(execution_result, sql_query, user_id)
            /\ pc' = "Completed"
       ELSE /\ result' = Failure(<<execution_result.error>>, sql_query, user_id)
            /\ pc' = "Failed"
    /\ events' = Append(events, Event("return", i))
    /\ UNCHANGED <<calls, op, sql_query, user_id, verdict, safe_query, params,
                   execution_result, driver_calls, queries, i, results>>

---------------------------------------------------------------------------
(* execute_multiple_queries *)

\* the for statement: the next query is taken, or the loop is exhausted
execute_multiple_queries_next ==
    /\ op = "execute_multiple_queries"
    /\ pc = "Loop"
    /\ IF i < Len(queries)
       THEN /\ sql_query' = queries[i + 1]
            /\ pc' = "Received"
       ELSE /\ pc' = "Returned"
            /\ UNCHANGED sql_query
    /\ verdict' = NoVerdict
    /\ safe_query' = <<>>
    /\ params' = <<>>
    /\ execution_result' = NoResponse
    /\ result' = NoResult
    /\ UNCHANGED <<calls, op, user_id, driver_calls, queries, i, results, events>>

\* faulty variant: no break, the loop goes on after a failure
execute_multiple_queries_append_no_break ==
    /\ op = "execute_multiple_queries"
    /\ pc \in {"Completed", "Failed"}
    /\ results' = Append(results, [outcome |-> result, query_index |-> i])
    /\ pc' = "Loop"
    /\ i' = i + 1
    /\ UNCHANGED <<calls, op, sql_query, user_id, verdict, safe_query, params,
                   execution_result, driver_calls, result, queries, events>>

\* faulty variant: the break comes before the append, the failure is not returned
execute_multiple_queries_append_after_break ==
    /\ op = "execute_multiple_queries"
    /\ pc \in {"Completed", "Failed"}
    /\ IF ~result.success
       THEN /\ pc' = "Returned"
            /\ UNCHANGED <<i, results>>
       ELSE /\ pc' = "Loop"
            /\ i' = i + 1
            /\ results' = Append(results, [outcome |-> result, query_index |-> i])
    /\ UNCHANGED <<calls, op, sql_query, user_id, verdict, safe_query, params,
                   execution_result, driver_calls, result, queries, events>>

\* the loop body after execute_query returned: append, and break on a failure
execute_multiple_queries_append ==
    /\ op = "execute_multiple_queries"
    /\ pc \in {"Completed", "Failed"}
    /\ results' = Append(results, [outcome |-> result, query_index |-> i])
    /\ IF ~result.success
       THEN /\ pc' = "Returned"
            /\ UNCHANGED i
       ELSE /\ pc' = "Loop"
            /\ i' = i + 1
    /\ UNCHANGED <<calls, op, sql_query, user_id, verdict, safe_query, params,
                   execution_result, driver_calls, result, queries, events>>

---------------------------------------------------------------------------
(* get_query_statistics *)

stats_query(query) == STATS_PREFIX \o query \o STATS_SUFFIX

get_query_statistics_prepare ==
    /\ op = "get_query_statistics"
    /\ pc = "Received"
    /\ safe_query' = prepare_query_parameters(stats_query(sql_query), user_id).safe_query
    /\ params' = prepare_query_parameters(stats_query(sql_query), user_id).params
    /\ pc' = "Parameterized"
    /\ events' = Append(events, Event("prepare", i))
    /\ UNCHANGED <<calls, op, sql_query, user_id, verdict, execution_result,
                   driver_calls, result, queries, i, results>>

get_query_statistics_dispatch ==
    /\ op = "get_query_statistics"
    /\ pc = "Parameterized"
    /\ driver_calls' = Append(driver_calls, [query |-> safe_query, params |-> params])
    /\ \E resp \in StatsResponses : execution_result' = resp
    /\ pc' = "Dispatched"
    /\ events' = Append(events, Event("dispatch", i))
    /\ UNCHANGED <<calls, op, sql_query, user_id, verdict, safe_query, params,
                   result, queries, i, results>>

total_rows(resp) == IF resp.results # <<>> THEN resp.results[1].total_rows ELSE 0

get_query_statistics_return ==
    /\ op = "get_query_statistics"
    /\ pc = "Dispatched"
    /\ IF execution_result.raised
       THEN /\ result' = [success |-> FALSE, error |-> <<execution_result.error>>,
                          query |-> sql_query]
            /\ pc' = "Failed"
       ELSE IF execution_result.success
       THEN /\ result' = [success |-> TRUE,
                          total_rows |-> total_rows(execution_result),
                          estimated_size |->
                              estimate_result_size(total_rows(execution_result),
                                                   execution_result.columns),
                          columns |-> execution_result.columns,
                          query |-> sql_query]
            /\ pc' = "Completed"
       ELSE /\ result' = [success |-> FALSE, error |-> <<execution_result.error>>,
                          query |-> sql_query]
            /\ pc' = "Failed"
    /\ events' = Append(events, Event("return", i))
    /\ UNCHANGED <<calls, op, sql_query, user_id, verdict, safe_query, params,
                   execution_result, driver_calls, queries, i, results>>

---------------------------------------------------------------------------
(* _prepare_query_parameters called on its own *)

prepare_query_parameters_call ==
    /\ op = "_prepare_query_parameters"
    /\ pc = "Received"
    /\ safe_query' = prepare_query_parameters(sql_query, user_id).safe_query
    /\ params' = prepare_query_parameters(sql_query, user_id).params
    /\ pc' = "Returned"
    /\ events' = Append(events, Event("prepare", i))
    /\ UNCHANGED <<calls, op, sql_query, user_id, verdict, execution_result,
                   driver_calls, result, queries, i, results>>

---------------------------------------------------------------------------
(* SQLGenerationAgent._validate_sql_structure *)

Rejected(check) == [valid |-> FALSE, failed_check |-> check]

\* faulty variant: the scope rule rejects only when WHERE and user_id are both missing
validate_sql_structure_both_missing(query) ==
    LET sql_upper == Upper(query)
    IN  IF query = <<>> THEN Rejected("empty")
        ELSE IF ~StartsWith(sql_upper, SELECT) THEN Rejected("select")
        ELSE IF ~Contains(sql_upper, FROM) THEN Rejected("from")
        ELSE IF ~Contains(sql_upper, WHERE) /\ ~Contains(sql_upper, USER_ID)
        THEN Rejected("where_user_id")
        ELSE IF \E n \in 1..Len(dangerous_keywords) :
                    \/ Contains(sql_upper, <<" ">> \o dangerous_keywords[n] \o <<" ">>)
                    \/ StartsWith(sql_upper, dangerous_keywords[n] \o <<" ">>)
        THEN Rejected("dangerous_keyword")
        ELSE [valid |-> TRUE, failed_check |-> "none"]

validate_sql_structure(query) ==
    LET sql_upper == Upper(query)
    IN  IF query = <<>> THEN Rejected("empty")
        ELSE IF ~StartsWith(sql_upper, SELECT) THEN Rejected("select")
        ELSE IF ~Contains(sql_upper, FROM) THEN Rejected("from")
        ELSE IF ~Contains(sql_upper, WHERE) \/ ~Contains(sql_upper, USER_ID)
        THEN Rejected("where_user_id")
        ELSE IF \E n \in 1..Len(dangerous_keywords) :
                    \/ Contains(sql_upper, <<" ">> \o dangerous_keywords[n] \o <<" ">>)
                    \/ StartsWith(sql_upper, dangerous_keywords[n] \o <<" ">>)
        THEN Rejected("dangerous_keyword")
        ELSE [valid |-> TRUE, failed_check |-> "none"]

validate_sql_structure_call ==
    /\ op = "_validate_sql_structure"
    /\ pc = "Received"
    /\ verdict' = validate_sql_structure(sql_query)
    /\ pc' = "Returned"
    /\ events' = Append(events, Event("validate", i))
    /\ UNCHANGED <<calls, op, sql_query, user_id, safe_query, params, execution_result,
                   driver_calls, result, queries, i, results>>

---------------------------------------------------------------------------
(* SQLGenerationAgent._fix_user_id_placeholder *)

\* the replacement text 'user_id = %s'
FIXED_COMPARISON ==
    <<"u", "s", "e", "r", "_", "i", "d", " ", "=", " ">> \o PLACEHOLDER

\* the pattern user_id\s*=\s*{user_id}, letter case ignored, matched at the
\* start of s: the text after the match, or no match
PatternMatch(s, uid) ==
    IF Len(s) < Len(USER_ID) \/ Upper(SubSeq(s, 1, Len(USER_ID))) # USER_ID
    THEN [matched |-> FALSE, rest |-> <<>>]
    ELSE LET a == LStrip(Drop(s, Len(USER_ID)))
         IN  IF a = <<>> \/ Head(a) # "="
             THEN [matched |-> FALSE, rest |-> <<>>]
             ELSE LET b == LStrip(Tail(a))
                  IN  IF StartsWith(b, Str(uid))
                      THEN [matched |-> TRUE, rest |-> Drop(b, Len(Str(uid)))]
                      ELSE [matched |-> FALSE, rest |-> <<>>]

\* re.sub(pattern, 'user_id = %s', s, flags=re.IGNORECASE): leftmost
\* non-overlapping matches
RECURSIVE re_sub_comparison(_, _)
re_sub_comparison(s, uid) ==
    IF s = <<>> THEN <<>>
    ELSE LET m == PatternMatch(s, uid)
         IN  IF m.matched THEN FIXED_COMPARISON \o re_sub_comparison(m.rest, uid)
             ELSE <<Head(s)>> \o re_sub_comparison(Tail(s), uid)

fix_user_id_placeholder(query, uid) ==
    IF query = <<>> THEN query ELSE re_sub_comparison(query, uid)

fix_user_id_placeholder_call ==
    /\ op = "_fix_user_id_placeholder"
    /\ pc = "Received"
    /\ safe_query' = fix_user_id_placeholder(sql_query, user_id)
    /\ pc' = "Returned"
    /\ events' = Append(events, Event("fix", i))
    /\ UNCHANGED <<calls, op, sql_query, user_id, verdict, params, execution_result,
                   driver_calls, result, queries, i, results>>

---------------------------------------------------------------------------
(* QueryExecutionAgent.test_query_syntax *)

test_query_syntax(query) ==
    LET sql_upper == Strip(Upper(query))
        IsFound(kw) == Contains(sql_upper, kw)
        found_dangerous == SelectSeq(dangerous_keywords, IsFound)
        has_select == StartsWith(sql_upper, SELECT)
        has_from == Contains(sql_upper, FROM)
    IN  [syntax_valid |-> has_select /\ has_from /\ found_dangerous = <<>>,
         has_select |-> has_select,
         has_from |-> has_from,
         has_where |-> Contains(sql_upper, WHERE),
         has_user_id |-> Contains(sql_upper, USER_ID),
         dangerous_keywords |-> found_dangerous,
         query |-> query]

test_query_syntax_call ==
    /\ op = "test_query_syntax"
    /\ pc = "Received"
    /\ verdict' = test_query_syntax(sql_query)
    /\ pc' = "Returned"
    /\ events' = Append(events, Event("check", i))
    /\ UNCHANGED <<calls, op, sql_query, user_id, safe_query, params, execution_result,
                   driver_calls, result, queries, i, results>>

---------------------------------------------------------------------------
(* The escaping step of _prepare_query_parameters applied on its own, *)
(* once to the text and once more to its own output                   *)

escape_call ==
    /\ op = "escape"
    /\ pc \in {"Received", "Escaped"}
    /\ safe_query' = re_sub_literals(IF pc = "Received" THEN sql_query ELSE safe_query)
    /\ pc' = IF pc = "Received" THEN "Escaped" ELSE "EscapedTwice"
    /\ events' = Append(events, Event("escape", i))
    /\ UNCHANGED <<calls, op, sql_query, user_id, verdict, params, execution_result,
                   driver_calls, result, queries, i, results>>

---------------------------------------------------------------------------
(* Concurrent calls of execute_query on one agent. The agent holds only    *)
(* its db_manager and query_guard (lines 19-24); sql_query, user_id and    *)
(* everything computed from them are local variables of each call. The     *)
(* calls share the db_manager, which sees the dispatches in some order.    *)

CallIds == 1..MaxCalls

ConcurrentResponses == {DriverRows(<<Row1>>, Columns), DriverError, DriverRaises}

NewCall(query, uid) ==
    [sql_query |-> query, user_id |-> uid, pc |-> "Received",
     verdict |-> NoVerdict, safe_query |-> <<>>, params |-> <<>>,
     execution_result |-> NoResponse, result |-> NoResult]

ConcurrentFrame ==
    UNCHANGED <<op, sql_query, user_id, pc, verdict, safe_query, params,
                execution_result, result, queries, i, results, events>>

call_validate(t) ==
    /\ op = "concurrent"
    /\ calls[t].pc = "Received"
    /\ LET c == calls[t]
           v == validate_query(c.sql_query, c.user_id)
       IN  calls' = [calls EXCEPT ![t] =
              IF ~v.is_safe
              THEN [c EXCEPT !.verdict = v, !.pc = "Failed",
                             !.result = Failure(SecurityError(v.reason),
                                                c.sql_query, c.user_id)]
              ELSE [c EXCEPT !.verdict = v, !.pc = "Validated"]]
    /\ UNCHANGED driver_calls
    /\ ConcurrentFrame

call_guard_raises(t) ==
    /\ op = "concurrent"
    /\ calls[t].pc = "Received"
    /\ calls' = [calls EXCEPT ![t] =
          [calls[t] EXCEPT !.pc = "Failed",
                           !.result = Failure(<<"guard error">>,
                                              calls[t].sql_query, calls[t].user_id)]]
    /\ UNCHANGED driver_calls
    /\ ConcurrentFrame

\* faulty variant: the user id is kept on the agent, where every call writes
\* it on entry, so that a call may bind the user id of any call
call_prepare_shared(t) ==
    /\ op = "concurrent"
    /\ calls[t].pc = "Validated"
    /\ \E w \in CallIds :
          LET c == calls[t]
              bound == prepare_query_parameters(c.sql_query, calls[w].user_id)
          IN  calls' = [calls EXCEPT ![t] =
                 [c EXCEPT !.safe_query = bound.safe_query,
                           !.params = bound.params, !.pc = "Parameterized"]]
    /\ UNCHANGED driver_calls
    /\ ConcurrentFrame

call_prepare(t) ==
    /\ op = "concurrent"
    /\ calls[t].pc = "Validated"
    /\ LET c == calls[t]
           bound == prepare_query_parameters(c.sql_query, c.user_id)
       IN  calls' = [calls EXCEPT ![t] =
              [c EXCEPT !.safe_query = bound.safe_query,
                        !.params = bound.params, !.pc = "Parameterized"]]
    /\ UNCHANGED driver_calls
    /\ ConcurrentFrame

call_dispatch(t) ==
    /\ op = "concurrent"
    /\ calls[t].pc = "Parameterized"
    /\ driver_calls' = Append(driver_calls, [query |-> calls[t].safe_query,
                                             params |-> calls[t].params])
    /\ \E resp \in ConcurrentResponses :
          calls' = [calls EXCEPT ![t] =
             [calls[t] EXCEPT !.execution_result = resp, !.pc = "Dispatched"]]
    /\ ConcurrentFrame

call_return(t) ==
    /\ op = "concurrent"
    /\ calls[t].pc = "Dispatched"
    /\ LET c == calls[t]
           resp == c.execution_result
       IN  calls' = [calls EXCEPT ![t] =
              IF resp.raised
              THEN [c EXCEPT !.pc = "Failed",
                             !.result = Failure(<<resp.error>>, c.sql_query, c.user_id)]
              ELSE IF resp.success
              THEN [c EXCEPT !.pc = "Completed",
                             !.result = Success(resp, c.sql_query, c.user_id)]
              ELSE [c EXCEPT !.pc = "Failed",
                             !.result = Failure(<<resp.error>>, c.sql_query, c.user_id)]]
    /\ UNCHANGED driver_calls
    /\ ConcurrentFrame

---------------------------------------------------------------------------
(* Specifications *)

InitRequest(operation, texts) ==
    /\ op = operation
    /\ sql_query \in texts
    /\ user_id \in UserIds
    /\ pc = "Received"
    /\ verdict = NoVerdict
    /\ safe_query = <<>>
    /\ params = <<>>
    /\ execution_result = NoResponse
    /\ driver_calls = <<>>
    /\ result = NoResult
    /\ queries = <<>>
    /\ i = 0
    /\ results = <<>>
    /\ events = <<>>
    /\ calls = <<>>

\* one call of execute_query
Init == InitRequest("execute_query", QueryTexts)

Next ==
    \/ execute_query_validate
    \/ execute_query_guard_raises
    \/ execute_query_prepare
    \/ execute_query_dispatch
    \/ execute_query_return

Spec == Init /\ [][Next]_vars

\* one call of execute_multiple_queries
InitBatch ==
    /\ op = "execute_multiple_queries"
    /\ queries \in SeqsUpTo(BatchTexts, MaxBatch)
    /\ user_id \in UserIds
    /\ sql_query = <<>>
    /\ pc = "Loop"
    /\ verdict = NoVerdict
    /\ safe_query = <<>>
    /\ params = <<>>
    /\ execution_result = NoResponse
    /\ driver_calls = <<>>
    /\ result = NoResult
    /\ i = 0
    /\ results = <<>>
    /\ events = <<>>
    /\ calls = <<>>

NextBatch ==
    \/ execute_multiple_queries_next
    \/ execute_query_validate
    \/ execute_query_guard_raises
    \/ execute_query_prepare
    \/ execute_query_dispatch
    \/ execute_query_return
    \/ execute_multiple_queries_append

SpecBatch == InitBatch /\ [][NextBatch]_vars

\* one call of get_query_statistics
InitStats == InitRequest("get_query_statistics", QueryTexts)

NextStats ==
    \/ get_query_statistics_prepare
    \/ get_query_statistics_dispatch
    \/ get_query_statistics_return

SpecStats == InitStats /\ [][NextStats]_vars

\* one call of _prepare_query_parameters
InitBind == InitRequest("_prepare_query_parameters", BindTexts)

NextBind == prepare_query_parameters_call

SpecBind == InitBind /\ [][NextBind]_vars

\* concurrent calls of execute_query
InitConcurrent ==
    /\ op = "concurrent"
    /\ calls \in [CallIds -> {NewCall(q, u) : q \in ConcurrentTexts, u \in UserIds}]
    /\ sql_query = <<>>
    /\ user_id = 0
    /\ pc = "Concurrent"
    /\ verdict = NoVerdict
    /\ safe_query = <<>>
    /\ params = <<>>
    /\ execution_result = NoResponse
    /\ driver_calls = <<>>
    /\ result = NoResult
    /\ queries = <<>>
    /\ i = 0
    /\ results = <<>>
    /\ events = <<>>

NextConcurrent ==
    \E t \in CallIds :
        \/ call_validate(t)
        \/ call_guard_raises(t)
        \/ call_prepare(t)
        \/ call_dispatch(t)
        \/ call_return(t)

SpecConcurrent == InitConcurrent /\ [][NextConcurrent]_vars

\* execute_query runs to its return: the body is straight-line code without
\* a loop or a wait, so a step that can be taken is taken
InitLive == InitRequest("execute_query", StageTexts)

SpecLive == InitLive /\ [][Next]_vars /\ WF_vars(Next)

\* the escaping step applied twice
InitEscape == InitRequest("escape", BindTexts)

NextEscape == escape_call

SpecEscape == InitEscape /\ [][NextEscape]_vars

\* one call of _fix_user_id_placeholder
InitFix == InitRequest("_fix_user_id_placeholder", FixTexts)

NextFix == fix_user_id_placeholder_call

SpecFix == InitFix /\ [][NextFix]_vars

\* one call of _validate_sql_structure or of test_query_syntax
InitStructure ==
    \E operation \in {"_validate_sql_structure", "test_query_syntax"} :
        InitRequest(operation, StructureTexts)

NextStructure ==
    \/ validate_sql_structure_call
    \/ test_query_syntax_call

SpecStructure == InitStructure /\ [][NextStructure]_vars

---------------------------------------------------------------------------
(* Notions the properties are stated with *)

\* number of single quotes before position k of text t
QuotesBefore(t, k) == Cardinality({j \in 1..(k - 1) : t[j] = QUOTE})

\* position k of t lies outside the single-quoted literal spans
Outside(t, k) == QuotesBefore(t, k) % 2 = 0

\* the positions outside literal spans where the token tok starts
OccurrencesOutside(t, tok) ==
    {k \in 1..(Len(t) - Len(tok) + 1) :
        SubSeq(t, k, k + Len(tok) - 1) = tok /\ Outside(t, k)}

BalancedQuotes(t) == Cardinality({j \in 1..Len(t) : t[j] = QUOTE}) % 2 = 0

\* every % of s doubled
DoublePercent(s) ==
    Flatten([k \in 1..Len(s) |->
                IF s[k] = PERCENT THEN <<PERCENT, PERCENT>> ELSE <<s[k]>>])

SecurityClassified(r) == r.error[1] = "Query blocked for security"

Terminal == pc \in {"Completed", "Failed"}

---------------------------------------------------------------------------
(* Properties of execute_query *)

\* C1: when the validator returns a rejected verdict, execute_query ends in a
\* failure whose error is security-classified, and the db_manager was never
\* called for that request.
C1_RejectedNeverReachesDriver ==
    (op = "execute_query" /\ pc # "Received" /\ verdict # NoVerdict
        /\ ~verdict.is_safe)
        => /\ pc = "Failed"
           /\ result.success = FALSE
           /\ SecurityClassified(result)
           /\ result.error[2] = verdict.reason
           /\ driver_calls = <<>>

C1_Witness ==
    /\ op = "execute_query"
    /\ pc = "Failed"
    /\ verdict = [is_safe |-> FALSE, reason |-> "MissingUserScope"]
    /\ result.success = FALSE
    /\ driver_calls = <<>>

\* C7: a query text with an odd number of single quotes is treated as a
\* rejection: execute_query returns a failure and no template is dispatched
\* to the db_manager.
C7_UnbalancedLiteralRejected ==
    (op = "execute_query" /\ ~BalancedQuotes(sql_query))
        => /\ driver_calls = <<>>
           /\ (Terminal => result.success = FALSE)

---------------------------------------------------------------------------
(* Properties of get_query_statistics *)

\* C2: for every query text the validator rejects, get_query_statistics
\* returns a failure and no template derived from that query is dispatched
\* to the db_manager.
C2_EstimateValidated ==
    (op = "get_query_statistics" /\ ~validate_query(sql_query, user_id).is_safe)
        => /\ driver_calls = <<>>
           /\ (Terminal => result.success = FALSE)

---------------------------------------------------------------------------
(* Properties of _prepare_query_parameters *)

Bound == op = "_prepare_query_parameters" /\ pc = "Returned"

\* C3: the user id is only ever a bound parameter: for any other user id the
\* template is the identical text, and the parameter sequences have the same
\* length and hold nothing but the respective user id.
C3_UserIdOnlyBound ==
    Bound =>
        \A other \in UserIds :
            LET bound == prepare_query_parameters(sql_query, other)
            IN  /\ bound.safe_query = safe_query
                /\ Len(bound.params) = Len(params)
                /\ \A k \in 1..Len(params) :
                        params[k] = user_id /\ bound.params[k] = other

C3_Witness ==
    /\ Bound
    /\ Len(params) = 2
    /\ \E other \in UserIds : other # user_id

\* C4: the number of parameters equals the number of placeholder tokens %s
\* that occur in the template outside single-quoted literal spans.
C4_ParamsMatchPlaceholders ==
    Bound => Len(params) = Cardinality(OccurrencesOutside(safe_query, PLACEHOLDER))

C4_Witness ==
    /\ Bound
    /\ Len(params) = 1
    /\ Count(safe_query, PLACEHOLDER) = 2

\* C5: a query with n scope markers outside literals and no other percent
\* sign outside literals is bound to a template without markers, holding n
\* placeholders outside literals, and to n parameters all equal to user_id;
\* the query scoping a base table and a joined table gives two.
C5_OneParameterPerMarker ==
    (Bound /\ OccurrencesOutside(sql_query, <<PERCENT>>) = {})
        => LET n == Cardinality(OccurrencesOutside(sql_query, MARKER))
           IN  /\ ~Contains(safe_query, MARKER)
               /\ Cardinality(OccurrencesOutside(safe_query, PLACEHOLDER)) = n
               /\ params = [k \in 1..n |-> user_id]
               /\ (sql_query = Q_JOIN => n = 2)

C5_Witness ==
    /\ Bound
    /\ sql_query = Q_JOIN
    /\ params = <<user_id, user_id>>

\* C6: for a text with an even number of single quotes, escaping doubles
\* every % inside a literal span and leaves the text outside literal spans
\* unchanged, placeholders included; the literal '50% off' becomes
\* '50%% off' and the one marker outside it gives one bound parameter.
C6_EscapeDoublesInsideLiterals ==
    (Bound /\ BalancedQuotes(sql_query))
        => LET before == Split(Replace(sql_query, MARKER, PLACEHOLDER), QUOTE)
               after == Split(safe_query, QUOTE)
           IN  /\ Len(after) = Len(before)
               /\ \A k \in 1..Len(before) :
                    after[k] = IF k % 2 = 1 THEN before[k]
                               ELSE DoublePercent(before[k])
               /\ (sql_query = Q_LITERAL
                      => safe_query = T_LITERAL /\ params = <<user_id>>)

C6_Witness ==
    /\ Bound
    /\ sql_query = Q_LITERAL
    /\ safe_query = T_LITERAL
    /\ params = <<user_id>>

---------------------------------------------------------------------------
(* Properties of execute_multiple_queries *)

BatchReturned == op = "execute_multiple_queries" /\ pc = "Returned"

\* C8: execute_multiple_queries returns the outcomes of the queries up to
\* and including the first failing one, in input order: every outcome but
\* the last is a success, the list is shorter than the input only when its
\* last outcome is a failure, a rejected query gives a failure, and an
\* empty list gives an empty result.
C8_StopsAtFirstFailure ==
    BatchReturned =>
        /\ Len(results) <= Len(queries)
        /\ \A k \in 1..Len(results) :
              /\ results[k].query_index = k - 1
              /\ results[k].outcome.query = queries[k]
              /\ (k < Len(results) => results[k].outcome.success)
              /\ (~validate_query(queries[k], user_id).is_safe
                     => ~results[k].outcome.success)
        /\ (Len(results) < Len(queries)
               => Len(results) >= 1 /\ ~results[Len(results)].outcome.success)
        /\ ((\A k \in 1..Len(results) : results[k].outcome.success)
               => Len(results) = Len(queries))
        /\ (queries = <<>> => results = <<>>)

C8_Witness ==
    /\ BatchReturned
    /\ Len(queries) = 3
    /\ Len(results) = 2
    /\ results[1].outcome.success
    /\ ~results[2].outcome.success
    /\ SecurityClassified(results[2].outcome)
    /\ Len(driver_calls) = 1

\* a query of the batch has failed
BatchFailed ==
    \/ pc = "Failed"
    \/ \E k \in 1..Len(results) : ~results[k].outcome.success

C9_Ordered ==
    /\ \A a, b \in 1..Len(events) :
          a < b => /\ events[a].index <= events[b].index
                   /\ (events[a].step = "dispatch" /\ events[b].step = "dispatch"
                          => events[a].index < events[b].index)
    /\ \A a \in 1..Len(events) :
          \A j \in 0..(events[a].index - 1) :
              /\ j + 1 <= Len(results)
              /\ results[j + 1].query_index = j
              /\ results[j + 1].outcome.success

\* C9: within one batch the steps happen in input order, query j is
\* processed only after every earlier query has completed successfully, and
\* once a query of the batch has failed no later query is validated or
\* dispatched.
C9_SequentialFailFast ==
    /\ [](op = "execute_multiple_queries" => C9_Ordered)
    /\ [][BatchFailed => (events' = events /\ driver_calls' = driver_calls)]_vars

C9_Witness ==
    /\ BatchReturned
    /\ Len(queries) = 3
    /\ Len(driver_calls) = 2
    /\ Len(results) = 2
    /\ ~results[2].outcome.success
    /\ ~SecurityClassified(results[2].outcome)

---------------------------------------------------------------------------
(* Properties of the structural checks *)

BeginsWithSelectAfterTrimming(t) == StartsWith(Strip(Upper(t)), SELECT)

\* C10: a query is rejected as not-a-SELECT exactly when its text, stripped
\* of leading and trailing whitespace and compared case-insensitively, does
\* not begin with SELECT; a text that begins with SELECT once its leading
\* whitespace is removed is not rejected by this rule.
C10_SelectRuleAfterTrimming ==
    /\ (op = "_validate_sql_structure" /\ pc = "Returned")
          => (verdict.failed_check \in {"empty", "select"}
                 <=> ~BeginsWithSelectAfterTrimming(sql_query))
    /\ (op = "test_query_syntax" /\ pc = "Returned")
          => (~verdict.has_select <=> ~BeginsWithSelectAfterTrimming(sql_query))

StructureValidated == op = "_validate_sql_structure" /\ pc = "Returned"

\* a forbidden keyword stands in t as a token of its own
HasStandaloneKeyword(t) ==
    \E n \in 1..Len(dangerous_keywords) :
        IsStandaloneToken(Upper(t), dangerous_keywords[n])

\* a forbidden keyword occurs in t, but nowhere as a token of its own
HasKeywordInIdentifierOnly(t) ==
    /\ \E n \in 1..Len(dangerous_keywords) : Contains(Upper(t), dangerous_keywords[n])
    /\ ~HasStandaloneKeyword(t)

\* C11: a query text holding a forbidden keyword as a standalone token,
\* bounded by whitespace of any kind or by the start of the string, is
\* rejected; a query where a forbidden keyword occurs only inside an
\* identifier such as created_at is not rejected by the keyword rule.
C11_StandaloneKeywordRejected ==
    StructureValidated =>
        /\ (HasStandaloneKeyword(sql_query) => ~verdict.valid)
        /\ (HasKeywordInIdentifierOnly(sql_query)
               => verdict.failed_check # "dangerous_keyword")

HasUserScope(t) == Contains(Upper(t), WHERE) /\ Contains(Upper(t), USER_ID)

\* C12: a query is accepted only if its text contains both WHERE and
\* user_id, in any letter case; a text missing either one is rejected, and
\* when it has passed the SELECT and FROM rules it is rejected by the
\* user-scope rule.
C12_UserScopeRequired ==
    StructureValidated =>
        /\ (verdict.valid => HasUserScope(sql_query))
        /\ (~HasUserScope(sql_query)
               => /\ ~verdict.valid
                  /\ verdict.failed_check \in {"empty", "select", "from", "where_user_id"}
                  /\ ((StartsWith(Upper(sql_query), SELECT)
                          /\ Contains(Upper(sql_query), FROM))
                         => verdict.failed_check = "where_user_id"))

C12_Witness ==
    /\ StructureValidated
    /\ Contains(Upper(sql_query), WHERE)
    /\ ~Contains(Upper(sql_query), USER_ID)
    /\ verdict = Rejected("where_user_id")

\* C13: a query text holding a semicolon followed by further non-whitespace
\* content is rejected as multiple statements, so that no multi-statement
\* text is accepted.
C13_MultipleStatementsRejected ==
    (StructureValidated /\ HasSecondStatement(sql_query)) => ~verdict.valid

---------------------------------------------------------------------------
(* Properties of the escaping step *)

\* every % of s written four times
QuadruplePercent(s) ==
    Flatten([k \in 1..Len(s) |->
                IF s[k] = PERCENT THEN <<PERCENT, PERCENT, PERCENT, PERCENT>>
                ELSE <<s[k]>>])

\* C14: escaping is a plain doubling: applied twice to a text with balanced
\* quotes it turns each % inside a literal span into %%%%, so it is not
\* idempotent on a literal containing %, while the text outside literal
\* spans is the same after one application and after two.
C14_EscapeTwiceQuadruples ==
    (op = "escape" /\ pc = "EscapedTwice" /\ BalancedQuotes(sql_query))
        => LET orig == Split(sql_query, QUOTE)
               once == Split(re_sub_literals(sql_query), QUOTE)
               twice == Split(safe_query, QUOTE)
           IN  /\ Len(twice) = Len(orig)
               /\ Len(once) = Len(orig)
               /\ \A k \in 1..Len(orig) :
                    IF k % 2 = 1
                    THEN twice[k] = once[k] /\ once[k] = orig[k]
                    ELSE /\ twice[k] = QuadruplePercent(orig[k])
                         /\ (Contains(orig[k], <<PERCENT>>) => twice[k] # once[k])

C14_Witness ==
    /\ op = "escape"
    /\ pc = "EscapedTwice"
    /\ sql_query = <<"x", QUOTE, PERCENT, QUOTE, PERCENT>>
    /\ safe_query = <<"x", QUOTE, PERCENT, PERCENT, PERCENT, PERCENT, QUOTE, PERCENT>>

---------------------------------------------------------------------------
(* Properties of the size estimate *)

\* C15: the size bucket is a function of the row count alone: 0 gives
\* "No data", 1..9 the Small bucket, 10..99 the Medium bucket, 100..999 the
\* Large bucket (as at 500 rows) and 1000 or more the Very large bucket.
C15_SizeBuckets ==
    (op = "get_query_statistics" /\ pc = "Completed")
        => LET n == result.total_rows
           IN  /\ n = total_rows(execution_result)
               /\ (n = 0 => result.estimated_size = "No data")
               /\ (n \in 1..9 => result.estimated_size = "Small dataset")
               /\ (n \in 10..99 => result.estimated_size = "Medium dataset")
               /\ (n \in 100..999 => result.estimated_size = "Large dataset")
               /\ (n >= 1000 => result.estimated_size = "Very large dataset")
               /\ result.estimated_size \in
                     {"No data", "Small dataset", "Medium dataset",
                      "Large dataset", "Very large dataset"}

C15_Witness ==
    /\ op = "get_query_statistics"
    /\ pc = "Completed"
    /\ result.total_rows = 500
    /\ result.estimated_size = "Large dataset"

---------------------------------------------------------------------------
(* Properties of the failures of execute_query *)

GuardRaised == \E k \in 1..Len(events) : events[k].step = "raise"

\* the validator, or the db_manager call, raised or reported an error
Faulted ==
    \/ GuardRaised
    \/ (verdict # NoVerdict /\ ~verdict.is_safe)
    \/ execution_result.raised
    \/ (execution_result # NoResponse /\ ~execution_result.success)

\* C16: execute_query never lets an exception reach its caller: when the
\* validator or the db_manager call raises or reports an error, the call
\* returns an outcome with success = false and an error message, carrying
\* the query text and the user id it was given.
C16_FailuresAreValues ==
    op = "execute_query" =>
        /\ pc # "Propagated"
        /\ (Terminal /\ Faulted)
              => /\ pc = "Failed"
                 /\ result.success = FALSE
                 /\ Len(result.error) >= 1
                 /\ result.query = sql_query
                 /\ result.user_id = user_id
        /\ (pc = "Failed" => Faulted)

C16_Witness ==
    /\ op = "execute_query"
    /\ pc = "Failed"
    /\ execution_result.raised
    /\ result = Failure(<<"connection lost">>, sql_query, user_id)

---------------------------------------------------------------------------
(* Properties of the result normalization *)

DateLike(value) == value.type \in {"datetime", "date"}

\* C17: on success the normalized result has the same number of rows in the
\* same order, every row has the same keys, every value that is not
\* date/time-like is unchanged, and every date/time-like value is replaced
\* by its textual form.
C17_OnlyDatesNormalized ==
    (op = "execute_query" /\ pc = "Completed")
        => LET raw == execution_result.results
               done == result.results
           IN  /\ result.raw_results = raw
               /\ result.row_count = execution_result.row_count
               /\ result.columns = execution_result.columns
               /\ Len(done) = Len(raw)
               /\ \A k \in 1..Len(raw) :
                    /\ DOMAIN done[k] = DOMAIN raw[k]
                    /\ \A key \in DOMAIN raw[k] :
                         IF DateLike(raw[k][key])
                         THEN done[k][key] = [type |-> "str", v |-> raw[k][key].v]
                         ELSE done[k][key] = raw[k][key]

C17_Witness ==
    /\ op = "execute_query"
    /\ pc = "Completed"
    /\ execution_result.results = <<Row1, Row2>>
    /\ result.results[1].id = IntVal(1)
    /\ result.results[1].created_at.type = "str"
    /\ result.results[2].created_at.type = "str"

---------------------------------------------------------------------------
(* Properties of concurrent calls *)

\* the outcome of execute_query run alone, for a verdict and a db_manager answer
AloneOutcome(query, uid, resp) ==
    LET v == validate_query(query, uid)
    IN  IF ~v.is_safe THEN Failure(SecurityError(v.reason), query, uid)
        ELSE IF resp.raised \/ ~resp.success THEN Failure(<<resp.error>>, query, uid)
        ELSE Success(resp, query, uid)

CallBound(c) == c.pc \in {"Parameterized", "Dispatched", "Completed"} \/ c.safe_query # <<>>

CallTerminal(c) == c.pc \in {"Completed", "Failed"}

\* C18: concurrent calls of execute_query on one agent do not interfere: in
\* every interleaving each call's verdict, template, parameters and outcome
\* are those of the call run alone with the same db_manager answer, the
\* parameters of a call hold its own user id only, and the db_manager
\* receives exactly the (template, parameters) pairs of the dispatched calls.
C18_CallsDoNotInterfere ==
    op = "concurrent" =>
        /\ \A t \in CallIds :
              LET c == calls[t]
                  alone == prepare_query_parameters(c.sql_query, c.user_id)
              IN  /\ c.verdict \in {NoVerdict, validate_query(c.sql_query, c.user_id)}
                  /\ CallBound(c)
                        => /\ c.safe_query = alone.safe_query
                           /\ c.params = alone.params
                           /\ \A k \in 1..Len(c.params) : c.params[k] = c.user_id
                  /\ CallTerminal(c)
                        => \/ c.verdict = NoVerdict
                              /\ c.result = Failure(<<"guard error">>, c.sql_query, c.user_id)
                           \/ c.verdict # NoVerdict
                              /\ c.result = AloneOutcome(c.sql_query, c.user_id,
                                                         c.execution_result)
        /\ Len(driver_calls)
              = Cardinality({t \in CallIds : calls[t].execution_result # NoResponse})
        /\ \A k \in 1..Len(driver_calls) :
              \E t \in CallIds :
                  /\ calls[t].execution_result # NoResponse
                  /\ driver_calls[k] = [query |-> calls[t].safe_query,
                                        params |-> calls[t].params]

C18_Witness ==
    /\ op = "concurrent"
    /\ calls[1].pc = "Completed"
    /\ calls[2].pc = "Completed"
    /\ calls[1].params = <<5, 5>>
    /\ calls[2].params = <<50, 50>>
    /\ driver_calls[1].params = <<50, 50>>
    /\ driver_calls[2].params = <<5, 5>>

---------------------------------------------------------------------------
(* The state machine of one request *)

\* the steps the state machine allows from one position to the next
StageEdges ==
    {<<"Received", "Validated">>, <<"Received", "Failed">>,
     <<"Validated", "Parameterized">>, <<"Parameterized", "Dispatched">>,
     <<"Dispatched", "Completed">>, <<"Dispatched", "Failed">>}

\* a step of the request keeps the order of the stages; it reaches Failed
\* from Received only on a rejected verdict or an exception of the guard; it
\* calls the db_manager exactly when it moves from Parameterized to
\* Dispatched; a terminal request takes no more step
StageStep ==
    /\ <<pc, pc'>> \in StageEdges
    /\ (pc = "Received" /\ pc' = "Failed")
          => \/ (verdict' # NoVerdict /\ ~verdict'.is_safe)
             \/ events'[Len(events')].step = "raise"
    /\ (pc = "Received" /\ pc' = "Validated") => verdict'.is_safe
    /\ (driver_calls' # driver_calls)
          <=> (pc = "Parameterized" /\ pc' = "Dispatched")
    /\ Len(driver_calls') <= Len(driver_calls) + 1

\* what each position of a request implies
StageState ==
    /\ pc \in {"Received", "Validated", "Parameterized", "Dispatched",
               "Completed", "Failed"}
    /\ Len(driver_calls) <= 1
    /\ Len(driver_calls) = 1
          => /\ pc \in {"Dispatched", "Completed", "Failed"}
             /\ verdict.is_safe
             /\ prepare_query_parameters(sql_query, user_id)
                   = [safe_query |-> safe_query, params |-> params]
             /\ driver_calls[1] = [query |-> safe_query, params |-> params]
    /\ pc \in {"Dispatched", "Completed"} => Len(driver_calls) = 1
    /\ pc = "Completed" => (result # NoResult /\ result.success)
    /\ pc = "Failed" => (result # NoResult /\ ~result.success)
    /\ ~Terminal => result = NoResult

\* C19: a request of execute_query moves through Received, Validated,
\* Parameterized, Dispatched and then Completed or Failed in that order and
\* never backwards (a request whose validation does not accept goes from
\* Received to Failed without the later stages); the db_manager is called
\* only after an accepted verdict and the binding, at most once, and every
\* request ends in exactly one terminal outcome, which is never left.
C19_StagesInOrder ==
    /\ [](op = "execute_query" => StageState)
    /\ [][op = "execute_query" => StageStep]_vars
    /\ (op = "execute_query") ~> Terminal

C19_Witness ==
    /\ op = "execute_query"
    /\ pc = "Failed"
    /\ Len(driver_calls) = 1
    /\ verdict.is_safe
    /\ ~execution_result.raised
    /\ ~execution_result.success
    /\ Len(events) = 4

---------------------------------------------------------------------------
(* The order of substitution and escaping *)

\* one pass over a query text: a marker outside a literal gives %s, a marker
\* inside a literal gives %%s, a % inside a literal is doubled; a literal
\* runs from a quote to the next quote, a quote without a later quote opens
\* no literal
RECURSIVE MarkerScan(_, _)
MarkerScan(s, inside) ==
    IF s = <<>> THEN <<>>
    ELSE IF StartsWith(s, MARKER)
    THEN (IF inside THEN <<PERCENT>> \o PLACEHOLDER ELSE PLACEHOLDER)
            \o MarkerScan(Drop(s, Len(MARKER)), inside)
    ELSE IF Head(s) = QUOTE
    THEN <<QUOTE>> \o MarkerScan(Tail(s), ~inside /\ Contains(Tail(s), <<QUOTE>>))
    ELSE IF Head(s) = PERCENT /\ inside
    THEN <<PERCENT, PERCENT>> \o MarkerScan(Tail(s), inside)
    ELSE <<Head(s)>> \o MarkerScan(Tail(s), inside)

\* C20 as stated: the text is escaped first and the marker replaced second,
\* so that every marker, one inside a literal included, appears as exactly %s.
C20_EscapeThenSubstitute ==
    Bound => safe_query = Replace(re_sub_literals(sql_query), MARKER, PLACEHOLDER)

\* C20: the marker is replaced first and the literals are escaped second: the
\* template is the escaping of the text with every marker replaced; a marker
\* outside a literal appears in it as exactly %s, a marker inside a literal
\* appears as %%s, its percent sign doubled with the literal's other ones.
C20_SubstituteThenEscape ==
    Bound => /\ safe_query = MarkerScan(sql_query, FALSE)
             /\ safe_query = re_sub_literals(Replace(sql_query, MARKER, PLACEHOLDER))
             /\ ~Contains(safe_query, MARKER)

C20_Witness ==
    /\ Bound
    /\ sql_query = <<QUOTE>> \o MARKER \o <<QUOTE>> \o MARKER
    /\ safe_query = <<QUOTE, PERCENT>> \o PLACEHOLDER \o <<QUOTE>> \o PLACEHOLDER
    /\ params = <<user_id>>

---------------------------------------------------------------------------
(* Properties of test_query_syntax *)

SyntaxChecked == op = "test_query_syntax" /\ pc = "Returned"

\* C21: test_query_syntax applies the lexical rules of the validator: the
\* list of forbidden keywords it reports is non-empty exactly when a
\* forbidden keyword stands in the text as a token of its own, so that a
\* text whose only match lies inside an identifier such as created_at
\* reports none and is valid when it has SELECT and FROM; the db_manager is
\* never called.
C21_SyntaxCheckSameRules ==
    SyntaxChecked =>
        /\ (verdict.dangerous_keywords # <<>>) <=> HasStandaloneKeyword(sql_query)
        /\ HasKeywordInIdentifierOnly(sql_query)
              => /\ verdict.dangerous_keywords = <<>>
                 /\ verdict.syntax_valid = (verdict.has_select /\ verdict.has_from)
        /\ driver_calls = <<>>

---------------------------------------------------------------------------
(* The template as the driver reads it *)

\* the placeholders the driver substitutes in a template: read from left to
\* right, %% is one escaped percent sign and %s is a placeholder, inside a
\* literal or outside
RECURSIVE DriverPlaceholders(_)
DriverPlaceholders(t) ==
    IF Len(t) < 2 THEN 0
    ELSE IF StartsWith(t, <<PERCENT, PERCENT>>) THEN DriverPlaceholders(Drop(t, 2))
    ELSE IF StartsWith(t, PLACEHOLDER) THEN 1 + DriverPlaceholders(Drop(t, 2))
    ELSE DriverPlaceholders(Tail(t))

\* C22: for every query text with balanced single quotes, the number of
\* placeholders the driver substitutes in the template equals the number of
\* bound parameters; neither a % inside a literal nor a %% outside a literal
\* makes the two differ.
C22_DriverCountMatches ==
    (Bound /\ BalancedQuotes(sql_query))
        => DriverPlaceholders(safe_query) = Len(params)

---------------------------------------------------------------------------
(* Properties of _fix_user_id_placeholder *)

FixReturned == op = "_fix_user_id_placeholder" /\ pc = "Returned"

Digits == {"0", "1", "2", "3", "4", "5", "6", "7", "8", "9"}

\* t compares user_id with a number that is exactly n: the comparison is
\* written at some position and the digits of n are followed by no digit
ComparesWithExactly(t, n) ==
    \E k \in 1..Len(t) :
        LET m == PatternMatch(Drop(t, k - 1), n)
        IN  m.matched /\ (m.rest = <<>> \/ Head(m.rest) \notin Digits)

\* a placeholder of t is directly followed by a digit
PlaceholderThenDigit(t) ==
    \E k \in 1..(Len(t) - 2) :
        SubSeq(t, k, k + 1) = PLACEHOLDER /\ t[k + 2] \in Digits

\* C23: _fix_user_id_placeholder rewrites a comparison of user_id with a
\* number only when the number is exactly the caller's user id: a text with
\* no such comparison, as user_id = 50 for the user id 5, is returned
\* unchanged, and no output holds a placeholder directly followed by digits.
C23_FixOnlyExactUserId ==
    FixReturned =>
        /\ ~ComparesWithExactly(sql_query, user_id) => safe_query = sql_query
        /\ ~PlaceholderThenDigit(safe_query)

===========================================================================
